---- MODULE Spec2Model ----
(***************************************************************************)
(* The connect API route of the voice-bot front end                        *)
(* (frontend-next/pages/api/connect.ts): one request served by `handler`,  *)
(* which creates a Daily room (createDailyRoom), then walks the pod        *)
(* configurations x datacenters against the RunPod allocator               *)
(* (launchRunPodInstance / attemptRunPodLaunch), racing a 60 s timer.      *)
(*                                                                         *)
(* The handler is an async function: a step of the model is the code that  *)
(* runs between two awaits.  Consecutive awaited logger calls change no    *)
(* request state and are folded into the step that precedes them; every    *)
(* value of pc is a point where the main sequence is suspended in an       *)
(* await, so the timer callback may run at any of them.                    *)
(***************************************************************************)
EXTENDS Integers, Sequences, FiniteSets, TLC

\* ---------------------------------------------------------------- bounds
\* How many entries of the configured podConfigs array the model keeps (the
\* array holds 14).  Of the 7 configured datacenters the model keeps the
\* first two, see ConfiguredDatacenterConfigs.
NumPodConfigs == 2

\* How many logger calls each request of LogSpec makes.
MaxLogCalls == 2

\* ------------------------------------------------------- configured data
Undefined == "undefined"

AllDatacenterConfigs ==
  << [id |-> "US-CA-2",  networkVolumeId |-> "2asfjjhdxl"],
     [id |-> "US-WA-1",  networkVolumeId |-> "z3guhr3kq7"],
     [id |-> "US-TX-3",  networkVolumeId |-> "753enpqqhg"],
     [id |-> "US-IL-1",  networkVolumeId |-> "pwsi7066z6"],
     [id |-> "US-GA-2",  networkVolumeId |-> "oezj4md6us"],
     [id |-> "CA-MTL-1", networkVolumeId |-> "220xq1cw3q"],
     [id |-> "CA-MTL-3", networkVolumeId |-> "2kqbh7542h"] >>

AllPodConfigs ==
  << [gpuTypeId |-> "NVIDIA RTX 4000 Ada Generation", minVcpuCount |-> 8, minMemoryInGb |-> 24],
     [gpuTypeId |-> "NVIDIA RTX 4000 Ada Generation", minVcpuCount |-> 4, minMemoryInGb |-> 24],
     [gpuTypeId |-> "NVIDIA RTX 4000 Ada Generation", minVcpuCount |-> 4, minMemoryInGb |-> 15],
     [gpuTypeId |-> "NVIDIA RTX 6000 Ada Generation", minVcpuCount |-> 4, minMemoryInGb |-> 15],
     [gpuTypeId |-> "NVIDIA RTX A4500",               minVcpuCount |-> 4, minMemoryInGb |-> 15],
     [gpuTypeId |-> "NVIDIA RTX A5000",               minVcpuCount |-> 4, minMemoryInGb |-> 15],
     [gpuTypeId |-> "NVIDIA A40",                     minVcpuCount |-> 4, minMemoryInGb |-> 15],
     [gpuTypeId |-> "NVIDIA GeForce RTX 4090",        minVcpuCount |-> 4, minMemoryInGb |-> 24],
     [gpuTypeId |-> "NVIDIA GeForce RTX 4090",        minVcpuCount |-> 4, minMemoryInGb |-> 15],
     [gpuTypeId |-> "NVIDIA GeForce RTX 5080",        minVcpuCount |-> 4, minMemoryInGb |-> 24],
     [gpuTypeId |-> "NVIDIA GeForce RTX 4080 SUPER",  minVcpuCount |-> 4, minMemoryInGb |-> 24],
     [gpuTypeId |-> "NVIDIA GeForce RTX 4080",        minVcpuCount |-> 4, minMemoryInGb |-> 24],
     [gpuTypeId |-> "NVIDIA GeForce RTX 4070 Ti",     minVcpuCount |-> 4, minMemoryInGb |-> 16],
     [gpuTypeId |-> "NVIDIA GeForce RTX 3090 Ti",     minVcpuCount |-> 4, minMemoryInGb |-> 16] >>

\* The arrays launchRunPodInstance passes on, cut to the model's bounds.
ConfiguredPodConfigs ==
  SubSeq(AllPodConfigs, 1, NumPodConfigs)

ConfiguredDatacenterConfigs == SubSeq(AllDatacenterConfigs, 1, 2)

\* ------------------------------------------------- the outside world
\* What the Daily API can answer to POST /v1/rooms and /v1/meeting-tokens.
RoomAnswers ==
  { [name |-> "room-a", url |-> "https://x.daily.co/room-a"],
    [name |-> "room-b", url |-> "https://x.daily.co/room-b"] }

TokenAnswers == { "token-1" }

\* The tts field of the request body: absent, or a configuration object.
TtsValues == { Undefined, "custom-tts" }

\* uuidv4()
Uuids == { "uuid-1" }

\* errors[0].message values of an allocator answer; "" stands for a missing
\* or empty message (falsy in the code).
NoInstancesText == "There are no longer any instances available with the requested specifications."
OtherErrorText == "Something went wrong. Please try again later."
ErrorMessages == { "", NoInstancesText, OtherErrorText }

\* String.prototype.includes("no longer any instances available") on the
\* messages above.
IncludesNoInstances(message) == message = NoInstancesText

\* data.podFindAndDeployOnDemand.id; "" stands for a missing or empty id.
NoId == ""
PodIds == { "pod-x", "pod-y" }

AxiosErrorText == "Request failed with status code 500"

\* What one axios.post to the allocator can produce: a throw (network
\* failure or non-2xx status), or a GraphQL body with or without an
\* `errors` array and with or without a pod id.
AllocatorAnswers ==
  { [threw |-> TRUE, hasErrors |-> FALSE, errors |-> << >>, podId |-> NoId] }
  \cup { [threw |-> FALSE, hasErrors |-> FALSE, errors |-> << >>, podId |-> p] :
           p \in PodIds \cup {NoId} }
  \cup { [threw |-> FALSE, hasErrors |-> TRUE, errors |-> e, podId |-> p] :
           e \in { << >> } \cup { << m >> : m \in ErrorMessages },
           p \in PodIds \cup {NoId} }

\* The class of an allocator answer as the allocator's protocol defines it:
\* the request failed in transport, the allocator reported that no instance
\* is available, it reported another error, it deployed a pod, or it
\* reported no error and no pod id either.
AnswerClass(r) ==
  IF r.threw THEN "transport"
  ELSE IF r.hasErrors /\ Len(r.errors) > 0 /\ IncludesNoInstances(r.errors[1])
    THEN "capacity"
  ELSE IF r.hasErrors THEN "other"
  ELSE IF r.podId # NoId THEN "success"
  ELSE "missing-id"

NoAnswer == [threw |-> FALSE, hasErrors |-> FALSE, errors |-> << >>, podId |-> Undefined]

\* ------------------------------------------------------------- state
VARIABLES
  method,             \* req.method
  runpodKey,          \* RUNPOD_API_KEY is set
  dailyKey,           \* DAILY_API_KEY is set
  tts,                \* req.body.tts
  pc,                 \* where the main sequence of handler is suspended
  timer,              \* the requestTimeout timer and its callback
  roomResponse,       \* createDailyRoom: roomResponse.data
  tokenResponse,      \* createDailyRoom: tokenResponse.data.token
  roomCalls,          \* POSTs to /v1/rooms issued
  tokenCalls,         \* POSTs to /v1/meeting-tokens issued
  roomUrl,            \* handler: roomUrl
  token,              \* handler: token
  podConfigs,         \* attemptRunPodLaunch: podConfigs
  datacenterConfigs,  \* attemptRunPodLaunch: datacenterConfigs
  IDENTIFIER,         \* attemptRunPodLaunch: IDENTIFIER
  index,              \* attemptRunPodLaunch: index of the outer loop (1-based)
  dcIndex,            \* attemptRunPodLaunch: position of the inner loop (1-based)
  calls,              \* allocator requests issued so far, in order
  outcomes,           \* the class of the allocator's answer to each, in order
  outstanding,        \* allocator requests issued and not yet answered
  response,           \* attemptRunPodLaunch: the answer being classified
  errors,             \* attemptRunPodLaunch: errors
  podId,              \* the id attemptRunPodLaunch returned
  thrown,             \* the Error the handler caught
  writableEnded,      \* res.writableEnded
  sent,               \* the HTTP response the caller received
  writes,             \* every res.status(..).json(..) executed, in order
  logSequenceToken,   \* module level: logSequenceToken
  lastWriter,         \* who assigned logSequenceToken last (0: module load)
  logPc,              \* per caller: where its sendToCloudWatch is suspended
  logParams,          \* per caller: params.sequenceToken of its PutLogEvents
  readFrom,           \* per caller: who had written the token it read
  logCount,           \* per caller: logger calls completed
  logResult,          \* per caller: how its last logger call ended
  home,               \* index.tsx: the Home page and its client, see HomeInit
  chat,               \* index.tsx: the chat log and the clock, see ChatInit
  help,               \* needs_help.ts: one request of handler, see HelpInit
  monitor             \* StatusMonitor.tsx: one StatusMonitor, see MonitorInit

vars == << method, runpodKey, dailyKey, tts, pc, timer, roomResponse, tokenResponse, roomCalls,
           tokenCalls, roomUrl, token, podConfigs, datacenterConfigs, IDENTIFIER,
           index, dcIndex, calls, outcomes, outstanding, response, errors, podId, thrown,
           writableEnded, sent, writes, logSequenceToken, lastWriter, logPc,
           logParams, readFrom, logCount, logResult, home, chat, help, monitor >>

reqVars == << method, runpodKey, dailyKey, tts >>
roomVars == << roomResponse, tokenResponse, roomCalls, tokenCalls, roomUrl, token >>
launchVars == << podConfigs, datacenterConfigs, IDENTIFIER, index, dcIndex, calls, outcomes,
                 outstanding, response, errors, podId >>
resVars == << writableEnded, sent, writes >>
logVars == << logSequenceToken, lastWriter, logPc, logParams, readFrom, logCount,
             logResult >>

\* The state of the other routes and pages.
pagesVars == << home, chat, help, monitor >>

\* What the steps of one connect request leave alone.
otherVars == << logVars, pagesVars >>

\* The requests LogSpec serves concurrently; caller 0 is the module load,
\* which runs initializeCloudWatchLogs once.
Requests == { 1, 2 }
ModuleLoad == 0
Callers == { ModuleLoad } \cup Requests

\* The logger before any call: the module has begun to load.
LogInit ==
  /\ logSequenceToken = Undefined
  /\ lastWriter = ModuleLoad
  /\ logPc = [c \in Callers |-> IF c = ModuleLoad THEN "initialize" ELSE "idle"]
  /\ logParams = [c \in Callers |-> Undefined]
  /\ readFrom = [c \in Callers |-> ModuleLoad]
  /\ logCount = [c \in Callers |-> 0]
  /\ logResult = [c \in Callers |-> "none"]

\* How many times the user presses Start, and how many ui_override objects
\* the server sends.
MaxStarts == 3
MaxOverrides == 2

\* How many times setUIOverride is called with a pending value.
MaxPromotions == 3

Clients == 1 .. MaxStarts
NoClient == 0
NoOverride == 0

\* index.tsx, Home after its first render: no client, nothing received.
\*   clientInstance         module level: clientInstance (0: null)
\*   created                clients created by createClient so far
\*   eventHandlersAttached  eventHandlersAttached.current
\*   handlersOn             the clients the handlers are attached to
\*   cleanup                the clients whose setup returned a cleanup
\*   connection             per client, the state of its transport
\*   connectCalls           every connect() called, in order
\*   updaters               setPendingUIOverride updaters React has queued
\*   received               ui_override objects received so far
\*   promotions             every value passed to setUIOverride, in order
\* and the states and the ref of the same names (0: null).
HomeInit ==
  home = [clientInstance |-> NoClient,
          created |-> 0,
          eventHandlersAttached |-> FALSE,
          handlersOn |-> { },
          cleanup |-> { },
          connection |-> [c \in Clients |-> "new"],
          connectCalls |-> << >>,
          isConnected |-> FALSE,
          isConnecting |-> FALSE,
          uiOverride |-> NoOverride,
          pendingUIOverride |-> NoOverride,
          pendingUIOverrideRef |-> NoOverride,
          updaters |-> << >>,
          received |-> 0,
          promotions |-> << >>,
          isWaitingForUser |-> FALSE]

\* How many messages the chat log may hold, and how far the clock runs (ms).
MaxMessages == 3
MaxClock == 4000

\* index.tsx: the chat log before the welcome message.
\* now is the clock read by new Date(), in ms.
ChatInit ==
  chat = [chatMessages |-> << >>, now |-> 0]

NoStatus == 0

\* JavaScript values by their typeof.
JsString(text) == [type |-> "string", value |-> text]
JsNumber(text) == [type |-> "number", value |-> text]
JsBoolean(text) == [type |-> "boolean", value |-> text]
JsUndefined == [type |-> "undefined", value |-> ""]

\* req.body of the needs_help route: null (a JSON body `null`), or an
\* object without help_data, or one whose help_data has any user and
\* needs_help.
UserValues == { JsString("Station 1"), JsString("Station 2"), JsString(""),
                JsNumber("7"), JsUndefined }
NeedsHelpValues == { JsBoolean("true"), JsBoolean("false"), JsString("yes"), JsUndefined }
NullBody ==
  [isNull |-> TRUE, hasHelpData |-> FALSE, user |-> JsUndefined, needs_help |-> JsUndefined]
NoHelpData ==
  [isNull |-> FALSE, hasHelpData |-> FALSE, user |-> JsUndefined, needs_help |-> JsUndefined]
HelpBodies ==
  { NullBody, NoHelpData }
  \cup { [isNull |-> FALSE, hasHelpData |-> TRUE, user |-> u, needs_help |-> n] :
           u \in UserValues, n \in NeedsHelpValues }
HelpMethods == { "POST", "GET", "PUT", "DELETE" }

\* The body of the route's response: { error } or the control server's data.
HelpError(text) == [error |-> text, data |-> Undefined]
HelpData(d) == [error |-> Undefined, data |-> d]

\* needs_help.ts: no request has arrived.  pc is where handler is
\* suspended, method and body are req.method and req.body, calls the
\* bodies posted to the control server, sent the response written.
HelpInit ==
  help = [pc |-> "idle",
          method |-> Undefined,
          body |-> NoHelpData,
          calls |-> << >>,
          sent |-> [status |-> NoStatus, body |-> HelpError(Undefined)]]

\* The props of StatusMonitor: no identifier, a first set, and one set
\* for each dependency of the effect changed alone.
DefaultPollInterval == 2000
FirstProps ==
  [identifier |-> "room-1", apiUrl |-> "http://localhost:7860",
   pollInterval |-> DefaultPollInterval, onStatusChange |-> TRUE]
MonitorProps ==
  { [FirstProps EXCEPT !.identifier = Undefined],
    FirstProps,
    [FirstProps EXCEPT !.identifier = "room-2"],
    [FirstProps EXCEPT !.apiUrl = "http://localhost:7861"],
    [FirstProps EXCEPT !.pollInterval = 5000],
    [FirstProps EXCEPT !.onStatusChange = FALSE] }

NoErrorState == "null"

\* StatusMonitor.tsx: before the component is mounted.  mounted is "no",
\* "yes" or "gone", props the props of the last render, effects the runs
\* of the polling effect, polls the calls of pollStatus, status and error
\* the two states, statusChanges the calls of onStatusChange.
MonitorInit ==
  monitor = [mounted |-> "no",
             props |-> FirstProps,
             effects |-> << >>,
             polls |-> << >>,
             status |-> "initializing",
             error |-> NoErrorState,
             statusChanges |-> << >>]

PagesInit ==
  /\ HomeInit
  /\ ChatInit
  /\ HelpInit
  /\ MonitorInit

NoError == [head |-> "", joined |-> << >>]
\* ResponseData: { room_url?, token?, error? }
ErrorBody(text) == [room_url |-> Undefined, token |-> Undefined, error |-> text]
OkBody(url, tok) == [room_url |-> url, token |-> tok, error |-> Undefined]

NoResponse == [status |-> NoStatus, body |-> ErrorBody(Undefined)]

Init ==
  /\ method \in { "POST", "GET" }
  /\ runpodKey \in BOOLEAN
  /\ dailyKey \in BOOLEAN
  /\ tts \in TtsValues
  /\ pc = "entry"
  /\ timer = "unset"
  /\ roomResponse = [name |-> Undefined, url |-> Undefined]
  /\ tokenResponse = Undefined
  /\ roomCalls = 0
  /\ tokenCalls = 0
  /\ roomUrl = Undefined
  /\ token = Undefined
  /\ podConfigs = << >>
  /\ datacenterConfigs = << >>
  /\ IDENTIFIER = Undefined
  /\ index = 0
  /\ dcIndex = 0
  /\ calls = << >>
  /\ outcomes = << >>
  /\ outstanding = 0
  /\ response = NoAnswer
  /\ errors = << >>
  /\ podId = NoId
  /\ thrown = NoError
  /\ writableEnded = FALSE
  /\ sent = NoResponse
  /\ writes = << >>
  /\ LogInit
  /\ PagesInit


\* ------------------------------------------------------ the response
\* res.status(status).json(body), executed by `by`.  The first one ends the
\* response; one executed after the response has ended throws
\* (ERR_HTTP_HEADERS_SENT) and the caller receives nothing more.
ResJson(by, status, body) ==
  /\ writes' = Append(writes, [by |-> by, status |-> status])
  /\ IF writableEnded
       THEN UNCHANGED << writableEnded, sent >>
       ELSE /\ writableEnded' = TRUE
            /\ sent' = [status |-> status, body |-> body]

\* clearTimeout(requestTimeout): cancels the timer unless its callback has
\* already started.
ClearTimeout(t) == IF t = "armed" THEN "cleared" ELSE t

\* ------------------------------------------------------- the handler
\* Mutant of HandlerEntry: the method test is left out.
HandlerEntryNoMethodTest ==
  /\ pc = "entry"
  /\ IF ~runpodKey \/ ~dailyKey
       THEN /\ timer' = ClearTimeout("armed")
            /\ ResJson("handler", 500, ErrorBody("API keys not configured. Please set RUNPOD_API_KEY and DAILY_API_KEY environment variables."))
            /\ pc' = "done"
       ELSE /\ timer' = "armed"
            /\ pc' = "createRoom"
            /\ UNCHANGED resVars
  /\ UNCHANGED << otherVars, reqVars, roomVars, launchVars, thrown >>

\* Mutant of HandlerEntry: the API key test is left out.
HandlerEntryNoKeyTest ==
  /\ pc = "entry"
  /\ IF method # "POST"
       THEN /\ timer' = ClearTimeout("armed")
            /\ ResJson("handler", 405, ErrorBody("Method not allowed"))
            /\ pc' = "done"
       ELSE /\ timer' = "armed"
            /\ pc' = "createRoom"
            /\ UNCHANGED resVars
  /\ UNCHANGED << otherVars, reqVars, roomVars, launchVars, thrown >>

\* handler, from its entry to the first await after setTimeout: the timer
\* is armed, then the method and the API keys are checked.
HandlerEntry ==
  /\ pc = "entry"
  /\ IF method # "POST"
       THEN /\ timer' = ClearTimeout("armed")
            /\ ResJson("handler", 405, ErrorBody("Method not allowed"))
            /\ pc' = "done"
       ELSE IF ~runpodKey \/ ~dailyKey
         THEN /\ timer' = ClearTimeout("armed")
              /\ ResJson("handler", 500, ErrorBody("API keys not configured. Please set RUNPOD_API_KEY and DAILY_API_KEY environment variables."))
              /\ pc' = "done"
         ELSE /\ timer' = "armed"
              /\ pc' = "createRoom"
              /\ UNCHANGED resVars
  /\ UNCHANGED << otherVars, reqVars, roomVars, launchVars, thrown >>

\* createDailyRoom: the POST to /v1/rooms is issued.
CreateDailyRoom ==
  /\ pc = "createRoom"
  /\ roomCalls' = roomCalls + 1
  /\ pc' = "roomWait"
  /\ UNCHANGED << otherVars, reqVars, timer, roomResponse, tokenResponse, tokenCalls, roomUrl,
                  token, launchVars, thrown, resVars >>

\* createDailyRoom: the room POST answered 2xx; the token POST is issued
\* at once.
RoomCreated ==
  /\ pc = "roomWait"
  /\ \E answer \in RoomAnswers : roomResponse' = answer
  /\ tokenCalls' = tokenCalls + 1
  /\ pc' = "tokenWait"
  /\ UNCHANGED << otherVars, reqVars, timer, tokenResponse, roomCalls, roomUrl, token,
                  launchVars, thrown, resVars >>

DailyRoomError == [head |-> "Failed to create Daily room", joined |-> << >>]

\* Mutant of RoomFailed: the room POST is tried again after a failure.
RoomFailedRetry ==
  /\ pc = "roomWait"
  /\ pc' = "createRoom"
  /\ UNCHANGED << otherVars, reqVars, timer, roomVars, launchVars, thrown, resVars >>

\* createDailyRoom: the room POST threw (non-2xx or no answer); the catch
\* block logs and rethrows, and the handler catches dailyError.
RoomFailed ==
  /\ pc = "roomWait"
  /\ thrown' = DailyRoomError
  /\ pc' = "roomFailed"
  /\ UNCHANGED << otherVars, reqVars, timer, roomVars, launchVars, resVars >>

\* createDailyRoom returns { roomUrl, token }; the handler stores them.
TokenCreated ==
  /\ pc = "tokenWait"
  /\ \E answer \in TokenAnswers : tokenResponse' = answer
  /\ roomUrl' = roomResponse.url
  /\ token' = tokenResponse'
  /\ pc' = "launch"
  /\ UNCHANGED << otherVars, reqVars, timer, roomResponse, roomCalls, tokenCalls, launchVars,
                  thrown, resVars >>

\* createDailyRoom: the token POST threw.
TokenFailed ==
  /\ pc = "tokenWait"
  /\ thrown' = DailyRoomError
  /\ pc' = "roomFailed"
  /\ UNCHANGED << otherVars, reqVars, timer, roomVars, launchVars, resVars >>

\* Mutant of RoomFailedRespond: the catch block clears the timer and
\* returns without writing a response.
RoomFailedRespondSilent ==
  /\ pc = "roomFailed"
  /\ timer' = ClearTimeout(timer)
  /\ pc' = "done"
  /\ UNCHANGED << otherVars, reqVars, roomVars, launchVars, thrown, resVars >>

\* Mutant of RoomFailedRespond: the catch block answers 500 but does not
\* return, so the handler goes on to launch the pod.
RoomFailedRespondNoReturn ==
  /\ pc = "roomFailed"
  /\ timer' = ClearTimeout(timer)
  /\ ResJson("handler", 500, ErrorBody("Failed to create Daily room. Please try again later."))
  /\ pc' = "launch"
  /\ UNCHANGED << otherVars, reqVars, roomVars, launchVars, thrown >>

\* handler, catch (dailyError): after the logger call, 500.
RoomFailedRespond ==
  /\ pc = "roomFailed"
  /\ timer' = ClearTimeout(timer)
  /\ ResJson("handler", 500, ErrorBody("Failed to create Daily room. Please try again later."))
  /\ pc' = "done"
  /\ UNCHANGED << otherVars, reqVars, roomVars, launchVars, thrown >>


\* ------------------------------------------- attemptRunPodLaunch
\* Mutant of NextPosition: a failed attempt is retried on the same candidate.
NextPositionRetry(i, j) == << i, j >>

\* Mutant of NextPosition: a failed attempt leaves the inner loop (`break`
\* where the code has `continue`), skipping the remaining datacenters.
NextPositionBreak(i, j) == << i + 1, 1 >>

\* Mutant of NextPosition: the loops are nested the other way round, the
\* configurations inside the datacenters.
NextPositionLocationOuter(i, j) ==
  IF i < Len(podConfigs) THEN << i + 1, j >>
  ELSE IF j < Len(datacenterConfigs) THEN << 1, j + 1 >>
  ELSE << i + 1, 1 >>

\* The position the loops reach after the attempt at (i, j) has failed:
\* the next datacenter, else the first datacenter of the next configuration.
NextPosition(i, j) ==
  IF j < Len(datacenterConfigs) THEN << i, j + 1 >> ELSE << i + 1, 1 >>

\* The position of the first attempt; with no datacenter the inner loop
\* never runs and the outer loop runs off its end.
FirstPosition(pods, dcs) ==
  IF Len(dcs) = 0 THEN << Len(pods) + 1, 1 >> ELSE << 1, 1 >>

\* Mutant of ExhaustedError: the collected errors are left out of the Error.
ExhaustedErrorBare(errs) ==
  [head |-> "No instances available for any configured options. Errors encountered: ",
   joined |-> << >>]

\* The message of the Error thrown when the loops end without a pod.
ExhaustedError(errs) ==
  [head |-> "No instances available for any configured options. Errors encountered: ",
   joined |-> errs]

NoConfigurationsError ==
  [head |-> "No configurations available to try", joined |-> << >>]

\* The message the handler compares runPodError.message with.
NoInstancesLiteral ==
  [head |-> "No instances available for any of the configured options",
   joined |-> << >>]

\* Mutant of Query: a new identifier is generated for every request.
QueryFreshIdentifier(i, j) ==
  [config |-> i,
   datacenter |-> j,
   gpuTypeId |-> podConfigs[i].gpuTypeId,
   minVcpuCount |-> podConfigs[i].minVcpuCount,
   minMemoryInGb |-> podConfigs[i].minMemoryInGb,
   dataCenterId |-> datacenterConfigs[j].id,
   networkVolumeId |-> datacenterConfigs[j].networkVolumeId,
   IDENTIFIER |-> ToString(Len(calls)),
   DAILY_ROOM_URL |-> roomUrl,
   DAILY_TOKEN |-> token,
   TTS_CONFIG |-> IF tts = Undefined THEN "default-tts" ELSE tts]

\* The mutation sent for configuration i in datacenter j; config and
\* datacenter record which candidate the request is for.
Query(i, j) ==
  [config |-> i,
   datacenter |-> j,
   gpuTypeId |-> podConfigs[i].gpuTypeId,
   minVcpuCount |-> podConfigs[i].minVcpuCount,
   minMemoryInGb |-> podConfigs[i].minMemoryInGb,
   dataCenterId |-> datacenterConfigs[j].id,
   networkVolumeId |-> datacenterConfigs[j].networkVolumeId,
   IDENTIFIER |-> IDENTIFIER,
   DAILY_ROOM_URL |-> roomUrl,
   DAILY_TOKEN |-> token,
   TTS_CONFIG |-> IF tts = Undefined THEN "default-tts" ELSE tts]

\* The entries pushed on `errors`.  The index printed by the code is
\* 0-based; config is -1 and gpu is "" where the message does not carry them.
NoInstancesMsg(i, j) ==
  [text |-> "No instances available in datacenter",
   datacenter |-> datacenterConfigs[j].id, config |-> -1,
   gpu |-> podConfigs[i].gpuTypeId, detail |-> ""]

DeployErrorMsg(i, j, message) ==
  [text |-> "Error deploying pod with config",
   datacenter |-> datacenterConfigs[j].id, config |-> i - 1, gpu |-> "",
   detail |-> IF message = "" THEN "Unknown error" ELSE message]

NoPodIdMsg(i, j) ==
  [text |-> "Pod ID not found in response for config",
   datacenter |-> datacenterConfigs[j].id, config |-> i - 1, gpu |-> "",
   detail |-> ""]

FailedMsg(i, j, message) ==
  [text |-> "Failed to deploy with config",
   datacenter |-> datacenterConfigs[j].id, config |-> i - 1, gpu |-> "",
   detail |-> message]

\* errors[0]?.message
FirstMessage(r) == IF Len(r.errors) > 0 THEN r.errors[1] ELSE ""

\* Mutant of Deployed: the `errors` field is not looked at when the answer
\* carries a pod id.
DeployedDespiteErrors(r) == ~r.threw /\ r.podId # NoId

\* The answer makes attemptRunPodLaunch return a pod id: no throw, no
\* `errors` field, a truthy id.
Deployed(r) == ~r.threw /\ ~r.hasErrors /\ r.podId # NoId

\* The answer is the allocator's "no instances" error.
NoCapacity(r) ==
  /\ ~r.threw
  /\ r.hasErrors
  /\ Len(r.errors) > 0
  /\ r.errors[1] # ""
  /\ IncludesNoInstances(r.errors[1])

\* Mutant of ErrorEntry: the "no instances" test is dropped, so that answer
\* is recorded as any other API error.
ErrorEntryNoCapacityTest(r, i, j) ==
  IF r.threw THEN FailedMsg(i, j, AxiosErrorText)
  ELSE IF r.hasErrors THEN DeployErrorMsg(i, j, FirstMessage(r))
  ELSE NoPodIdMsg(i, j)

\* The entry the code pushes on `errors` for an answer that is not Deployed.
ErrorEntry(r, i, j) ==
  IF r.threw THEN FailedMsg(i, j, AxiosErrorText)
  ELSE IF NoCapacity(r) THEN NoInstancesMsg(i, j)
  ELSE IF r.hasErrors THEN DeployErrorMsg(i, j, FirstMessage(r))
  ELSE NoPodIdMsg(i, j)

\* Mutant of AttemptEntry: the podConfigs.length === 0 test is left out.
AttemptEntryNoLengthTest(pods, dcs) ==
  /\ podConfigs' = pods
  /\ datacenterConfigs' = dcs
  /\ \E u \in Uuids : IDENTIFIER' = u
  /\ errors' = << >>
  /\ index' = FirstPosition(pods, dcs)[1]
  /\ dcIndex' = FirstPosition(pods, dcs)[2]
  /\ IF index' > Len(pods)
       THEN thrown' = ExhaustedError(errors') /\ pc' = "launchFailed"
       ELSE thrown' = thrown /\ pc' = "tryAttempt"

\* attemptRunPodLaunch(.., podConfigs, datacenterConfigs), from its entry
\* up to the first axios.post or to its throw.
AttemptEntry(pods, dcs) ==
  /\ podConfigs' = pods
  /\ datacenterConfigs' = dcs
  /\ IF Len(pods) = 0
       THEN /\ thrown' = NoConfigurationsError
            /\ pc' = "launchFailed"
            /\ UNCHANGED << IDENTIFIER, index, dcIndex, errors >>
       ELSE /\ \E u \in Uuids : IDENTIFIER' = u
            /\ errors' = << >>
            /\ index' = FirstPosition(pods, dcs)[1]
            /\ dcIndex' = FirstPosition(pods, dcs)[2]
            /\ IF index' > Len(pods)
                 THEN thrown' = ExhaustedError(errors') /\ pc' = "launchFailed"
                 ELSE thrown' = thrown /\ pc' = "tryAttempt"

\* launchRunPodInstance calls attemptRunPodLaunch with the configured
\* arrays; attemptRunPodLaunch runs up to the first axios.post.
LaunchRunPodInstance ==
  /\ pc = "launch"
  /\ AttemptEntry(ConfiguredPodConfigs, ConfiguredDatacenterConfigs)
  /\ UNCHANGED << otherVars, reqVars, timer, roomVars, calls, outcomes, outstanding, response,
                  podId, resVars >>

\* attemptRunPodLaunch called on its own, with the arrays it was given.
AttemptRunPodLaunch ==
  /\ pc = "attempt"
  /\ AttemptEntry(podConfigs, datacenterConfigs)
  /\ UNCHANGED << otherVars, reqVars, timer, roomVars, calls, outcomes, outstanding, response,
                  podId, resVars >>

\* Mutant of AttemptIssue: the loop stops issuing requests once the
\* response has ended.
AttemptIssueUnlessEnded ==
  /\ pc = "tryAttempt"
  /\ ~writableEnded
  /\ calls' = Append(calls, Query(index, dcIndex))
  /\ outstanding' = outstanding + 1
  /\ pc' = "allocWait"
  /\ UNCHANGED << otherVars, reqVars, timer, roomVars, podConfigs, datacenterConfigs,
                  IDENTIFIER, index, dcIndex, outcomes, response, errors, podId,
                  thrown, resVars >>

\* Mutant of AttemptIssue: the request is not awaited; the loop goes on to
\* the next candidate while it is in flight.
AttemptIssueNotAwaited ==
  /\ pc = "tryAttempt"
  /\ index <= Len(podConfigs)
  /\ calls' = Append(calls, Query(index, dcIndex))
  /\ outstanding' = outstanding + 1
  /\ index' = NextPosition(index, dcIndex)[1]
  /\ dcIndex' = NextPosition(index, dcIndex)[2]
  /\ pc' = "tryAttempt"
  /\ UNCHANGED << otherVars, reqVars, timer, roomVars, podConfigs, datacenterConfigs,
                  IDENTIFIER, outcomes, response, errors, podId, thrown, resVars >>

\* attemptRunPodLaunch: axios.post to the allocator is issued for the
\* current configuration and datacenter.
AttemptIssue ==
  /\ pc = "tryAttempt"
  /\ calls' = Append(calls, Query(index, dcIndex))
  /\ outstanding' = outstanding + 1
  /\ pc' = "allocWait"
  /\ UNCHANGED << otherVars, reqVars, timer, roomVars, podConfigs, datacenterConfigs,
                  IDENTIFIER, index, dcIndex, outcomes, response, errors, podId,
                  thrown, resVars >>

\* The allocator answers (or the request throws) with one of `answers`.
AttemptAnsweredWith(answers) ==
  /\ \E answer \in answers : response' = answer
  /\ outcomes' = Append(outcomes, AnswerClass(response'))
  /\ outstanding' = outstanding - 1
  /\ pc' = "classify"
  /\ UNCHANGED << otherVars, reqVars, timer, roomVars, podConfigs, datacenterConfigs,
                  IDENTIFIER, index, dcIndex, calls, errors, podId, thrown,
                  resVars >>

\* The allocator answers (or the request throws).
AttemptAnswered ==
  /\ pc = "allocWait"
  /\ AttemptAnsweredWith(AllocatorAnswers)

\* Mutant of Classify: the pod id is kept but the function does not return;
\* the loops go on with the next candidate.
ClassifyNoReturn ==
  /\ pc = "classify"
  /\ podId' = IF Deployed(response) THEN response.podId ELSE podId
  /\ errors' = IF Deployed(response) THEN errors
               ELSE Append(errors, ErrorEntry(response, index, dcIndex))
  /\ index' = NextPosition(index, dcIndex)[1]
  /\ dcIndex' = NextPosition(index, dcIndex)[2]
  /\ IF index' > Len(podConfigs)
       THEN IF podId' # NoId
              THEN thrown' = thrown /\ pc' = "launched"
              ELSE thrown' = ExhaustedError(errors') /\ pc' = "launchFailed"
       ELSE thrown' = thrown /\ pc' = "tryAttempt"
  /\ UNCHANGED << otherVars, reqVars, timer, roomVars, podConfigs, datacenterConfigs,
                  IDENTIFIER, calls, outcomes, outstanding, response, resVars >>

\* Mutant of Classify: a transport error is rethrown instead of recorded,
\* ending the loops at once.
ClassifyRethrow ==
  /\ pc = "classify"
  /\ IF Deployed(response)
       THEN /\ podId' = response.podId
            /\ pc' = "launched"
            /\ UNCHANGED << errors, index, dcIndex, thrown >>
       ELSE IF response.threw
         THEN /\ thrown' = [head |-> AxiosErrorText, joined |-> << >>]
              /\ pc' = "launchFailed"
              /\ UNCHANGED << errors, index, dcIndex, podId >>
         ELSE /\ errors' = Append(errors, ErrorEntry(response, index, dcIndex))
              /\ index' = NextPosition(index, dcIndex)[1]
              /\ dcIndex' = NextPosition(index, dcIndex)[2]
              /\ podId' = podId
              /\ IF index' > Len(podConfigs)
                   THEN thrown' = ExhaustedError(errors') /\ pc' = "launchFailed"
                   ELSE thrown' = thrown /\ pc' = "tryAttempt"
  /\ UNCHANGED << otherVars, reqVars, timer, roomVars, podConfigs, datacenterConfigs,
                  IDENTIFIER, calls, outcomes, outstanding, response, resVars >>

\* attemptRunPodLaunch classifies the answer: it returns the pod id, or
\* pushes one entry on `errors` and continues with the next datacenter or
\* configuration, throwing once the loops have ended.
Classify ==
  /\ pc = "classify"
  /\ IF Deployed(response)
       THEN /\ podId' = response.podId
            /\ pc' = "launched"
            /\ UNCHANGED << errors, index, dcIndex, thrown >>
       ELSE /\ errors' = Append(errors, ErrorEntry(response, index, dcIndex))
            /\ index' = NextPosition(index, dcIndex)[1]
            /\ dcIndex' = NextPosition(index, dcIndex)[2]
            /\ podId' = podId
            /\ IF index' > Len(podConfigs)
                 THEN thrown' = ExhaustedError(errors') /\ pc' = "launchFailed"
                 ELSE thrown' = thrown /\ pc' = "tryAttempt"
  /\ UNCHANGED << otherVars, reqVars, timer, roomVars, podConfigs, datacenterConfigs,
                  IDENTIFIER, calls, outcomes, outstanding, response, resVars >>

\* Mutant of LaunchFailedRespond: the catch block first asks the Daily API
\* to delete the room (one more Room Broker request, counted in roomCalls).
LaunchFailedRespondRollback ==
  /\ pc = "launchFailed"
  /\ roomCalls' = roomCalls + 1
  /\ timer' = ClearTimeout(timer)
  /\ ResJson("handler", 500, ErrorBody("Failed to launch instance. Please try again later."))
  /\ pc' = "done"
  /\ UNCHANGED << otherVars, reqVars, roomResponse, tokenResponse, tokenCalls, roomUrl,
                  token, launchVars, thrown >>

\* Mutant of LaunchFailedRespond: the catch block only logs; the handler
\* falls through to the 200 answer.
LaunchFailedRespondFallsThrough ==
  /\ pc = "launchFailed"
  /\ timer' = ClearTimeout(timer)
  /\ ResJson("handler", 200, OkBody(roomUrl, token))
  /\ pc' = "done"
  /\ UNCHANGED << otherVars, reqVars, roomVars, launchVars, thrown >>

\* handler, catch (runPodError): 503 when the message equals the literal,
\* else 500.
LaunchFailedRespond ==
  /\ pc = "launchFailed"
  /\ timer' = ClearTimeout(timer)
  /\ IF thrown = NoInstancesLiteral
       THEN ResJson("handler", 503, ErrorBody("No GPU instances are currently available. Please try again later."))
       ELSE ResJson("handler", 500, ErrorBody("Failed to launch instance. Please try again later."))
  /\ pc' = "done"
  /\ UNCHANGED << otherVars, reqVars, roomVars, launchVars, thrown >>

\* handler: launchRunPodInstance returned; 200 with the room credentials.
RespondOk ==
  /\ pc = "launched"
  /\ timer' = ClearTimeout(timer)
  /\ ResJson("handler", 200, OkBody(roomUrl, token))
  /\ pc' = "done"
  /\ UNCHANGED << otherVars, reqVars, roomVars, launchVars, thrown >>

\* ---------------------------------------------------------- the timer
\* The setTimeout callback starts: it tests res.writableEnded and, if the
\* response is still open, awaits logger.error.
TimerFires ==
  /\ timer = "armed"
  /\ timer' = IF writableEnded THEN "finished" ELSE "logging"
  /\ UNCHANGED << otherVars, reqVars, pc, roomVars, launchVars, thrown, resVars >>

\* The callback resumes after logger.error and writes the 504.
TimerResponds ==
  /\ timer = "logging"
  /\ ResJson("timer", 504, ErrorBody("Request timed out"))
  /\ timer' = "finished"
  /\ UNCHANGED << otherVars, reqVars, pc, roomVars, launchVars, thrown >>

Next ==
  \/ HandlerEntry
  \/ CreateDailyRoom
  \/ RoomCreated
  \/ RoomFailed
  \/ TokenCreated
  \/ TokenFailed
  \/ RoomFailedRespond
  \/ LaunchRunPodInstance
  \/ AttemptIssue
  \/ AttemptAnswered
  \/ Classify
  \/ LaunchFailedRespond
  \/ RespondOk
  \/ TimerFires
  \/ TimerResponds

Spec == Init /\ [][Next]_vars

\* The steps of the main sequence that run when an awaited logger call
\* has returned, as opposed to the answers of the Daily API and of the
\* allocator.
Continuations ==
  \/ HandlerEntry
  \/ CreateDailyRoom
  \/ RoomFailedRespond
  \/ LaunchRunPodInstance
  \/ AttemptIssue
  \/ Classify
  \/ LaunchFailedRespond
  \/ RespondOk

\* The request under the scheduling Node guarantees: an armed timer fires
\* unless it is cleared, and a continuation runs once its awaited logger
\* call has returned.  The Daily API and the allocator may never answer.
FairSpec ==
  /\ Spec
  /\ WF_vars(TimerFires)
  /\ WF_vars(TimerResponds)
  /\ WF_vars(Continuations)

\* ---------------------------------- attemptRunPodLaunch on its own
\* A call of attemptRunPodLaunch with any room URL, token and TTS
\* configuration and with arrays of any length up to the model's bounds,
\* the empty ones included.
LaunchInit ==
  /\ method = "POST"
  /\ runpodKey = TRUE
  /\ dailyKey = TRUE
  /\ tts \in TtsValues
  /\ pc = "attempt"
  /\ timer = "unset"
  /\ roomResponse \in RoomAnswers
  /\ tokenResponse \in TokenAnswers
  /\ roomCalls = 1
  /\ tokenCalls = 1
  /\ roomUrl = roomResponse.url
  /\ token = tokenResponse
  /\ podConfigs \in { SubSeq(AllPodConfigs, 1, n) : n \in 0 .. NumPodConfigs }
  /\ datacenterConfigs \in { SubSeq(AllDatacenterConfigs, 1, n) : n \in 0 .. 2 }
  /\ IDENTIFIER = Undefined
  /\ index = 0
  /\ dcIndex = 0
  /\ calls = << >>
  /\ outcomes = << >>
  /\ outstanding = 0
  /\ response = NoAnswer
  /\ errors = << >>
  /\ podId = NoId
  /\ thrown = NoError
  /\ writableEnded = FALSE
  /\ sent = NoResponse
  /\ writes = << >>
  /\ LogInit
  /\ PagesInit

LaunchNext ==
  \/ AttemptRunPodLaunch
  \/ AttemptIssue
  \/ AttemptAnswered
  \/ Classify

\* Every allocator call returns or throws, and the continuation of an
\* await runs once the awaited call has settled.
LaunchSpec == LaunchInit /\ [][LaunchNext]_vars /\ WF_vars(LaunchNext)

\* ------------------------- launchRunPodInstance with its whole arrays
\* launchRunPodInstance as the handler calls it, with the 14 pod
\* configurations and the 7 datacenters it declares.  The allocator either
\* reports that no instance is available or deploys a pod; the other
\* failures advance the loops in the same way (NextPosition).
PriorityInit ==
  /\ method = "POST"
  /\ runpodKey = TRUE
  /\ dailyKey = TRUE
  /\ tts \in TtsValues
  /\ pc = "launch"
  /\ timer = "armed"
  /\ roomResponse \in RoomAnswers
  /\ tokenResponse \in TokenAnswers
  /\ roomCalls = 1
  /\ tokenCalls = 1
  /\ roomUrl = roomResponse.url
  /\ token = tokenResponse
  /\ podConfigs = << >>
  /\ datacenterConfigs = << >>
  /\ IDENTIFIER = Undefined
  /\ index = 0
  /\ dcIndex = 0
  /\ calls = << >>
  /\ outcomes = << >>
  /\ outstanding = 0
  /\ response = NoAnswer
  /\ errors = << >>
  /\ podId = NoId
  /\ thrown = NoError
  /\ writableEnded = FALSE
  /\ sent = NoResponse
  /\ writes = << >>
  /\ LogInit
  /\ PagesInit

LaunchWithAllConfigs ==
  /\ pc = "launch"
  /\ AttemptEntry(AllPodConfigs, AllDatacenterConfigs)
  /\ UNCHANGED << otherVars, reqVars, timer, roomVars, calls, outcomes, outstanding, response,
                  podId, resVars >>

CapacityOrPod ==
  { a \in AllocatorAnswers :
      \/ NoCapacity(a) /\ a.podId = NoId
      \/ Deployed(a) }

AttemptAnsweredCapacityOrPod ==
  /\ pc = "allocWait"
  /\ AttemptAnsweredWith(CapacityOrPod)

PriorityNext ==
  \/ LaunchWithAllConfigs
  \/ AttemptIssue
  \/ AttemptAnsweredCapacityOrPod
  \/ Classify

PrioritySpec == PriorityInit /\ [][PriorityNext]_vars

\* -------------------------------------------------------- the logger
\* logger.log / logger.error -> sendToCloudWatch, called by the requests
\* the runtime serves concurrently.  What a connect request does between
\* its logger calls is left out here: LogSpec follows logSequenceToken,
\* the one variable of the module the calls assign.
connectVars == << reqVars, pc, timer, roomVars, launchVars, thrown, resVars >>
handlerVars == << connectVars, pagesVars >>

\* response.nextSequenceToken / stream.uploadSequenceToken
SequenceTokens == { "seq-1", "seq-2" }

\* Mutant of LoggerResult: the catch block of sendToCloudWatch rethrows.
LoggerResultRethrow(sinkFailed) == IF sinkFailed THEN "threw" ELSE "returned"

\* How a logger call ends: sendToCloudWatch catches whatever the sink
\* threw and logs it to the console, so the call returns either way.
LoggerResult(sinkFailed) == "returned"

\* The end of the logger call of caller c.
LoggerEnds(c, sinkFailed) ==
  /\ logResult' = [logResult EXCEPT ![c] = LoggerResult(sinkFailed)]
  /\ logCount' = [logCount EXCEPT ![c] = @ + 1]
  /\ logPc' = [logPc EXCEPT ![c] =
                 IF LoggerResult(sinkFailed) = "returned" THEN "idle" ELSE "threw"]

\* A request calls the logger: sendToCloudWatch builds params, reading
\* logSequenceToken, and sends PutLogEvents.
SendToCloudWatch(c) ==
  /\ logPc[c] = "idle"
  /\ logCount[c] < MaxLogCalls
  /\ logParams' = [logParams EXCEPT ![c] = logSequenceToken]
  /\ readFrom' = [readFrom EXCEPT ![c] = lastWriter]
  /\ logPc' = [logPc EXCEPT ![c] = "put"]
  /\ logResult' = [logResult EXCEPT ![c] = "pending"]
  /\ UNCHANGED << handlerVars, logSequenceToken, lastWriter, logCount >>

\* PutLogEvents succeeded: logSequenceToken = response.nextSequenceToken.
PutSucceeded(c) ==
  /\ logPc[c] = "put"
  /\ \E next \in SequenceTokens \cup { Undefined } : logSequenceToken' = next
  /\ lastWriter' = c
  /\ LoggerEnds(c, FALSE)
  /\ UNCHANGED << handlerVars, logParams, readFrom >>

\* PutLogEvents threw ResourceNotFoundException: initializeCloudWatchLogs
\* is called.
PutNotFound(c) ==
  /\ logPc[c] = "put"
  /\ logPc' = [logPc EXCEPT ![c] = "initialize"]
  /\ UNCHANGED << handlerVars, logSequenceToken, lastWriter, logParams, readFrom,
                  logCount, logResult >>

\* PutLogEvents threw another error: rethrown to the outer catch.
PutFailed(c) ==
  /\ logPc[c] = "put"
  /\ LoggerEnds(c, TRUE)
  /\ UNCHANGED << handlerVars, logSequenceToken, lastWriter, logParams, readFrom >>

\* What the caller does once initializeCloudWatchLogs returned true: the
\* module load is done; sendToCloudWatch retries PutLogEvents with the
\* logSequenceToken of that moment.
AfterInitialize(c) ==
  IF c = ModuleLoad
    THEN /\ logPc' = [logPc EXCEPT ![c] = "loaded"]
         /\ UNCHANGED << logParams, readFrom >>
    ELSE /\ logPc' = [logPc EXCEPT ![c] = "retry"]
         /\ logParams' = [logParams EXCEPT ![c] = logSequenceToken']
         /\ readFrom' = [readFrom EXCEPT ![c] = lastWriter']

\* initializeCloudWatchLogs found the stream: it stores the stream's
\* uploadSequenceToken and returns true.
InitializeFoundStream(c) ==
  /\ logPc[c] = "initialize"
  /\ \E upload \in SequenceTokens \cup { Undefined } : logSequenceToken' = upload
  /\ lastWriter' = c
  /\ AfterInitialize(c)
  /\ UNCHANGED << handlerVars, logCount, logResult >>

\* initializeCloudWatchLogs created the stream and returns true.
InitializeCreatedStream(c) ==
  /\ logPc[c] = "initialize"
  /\ UNCHANGED << logSequenceToken, lastWriter >>
  /\ AfterInitialize(c)
  /\ UNCHANGED << handlerVars, logCount, logResult >>

\* initializeCloudWatchLogs failed and returns false (the module load
\* catches and logs it; sendToCloudWatch does not retry).
InitializeFailed(c) ==
  /\ logPc[c] = "initialize"
  /\ IF c = ModuleLoad
       THEN /\ logPc' = [logPc EXCEPT ![c] = "loaded"]
            /\ UNCHANGED << logCount, logResult >>
       ELSE LoggerEnds(c, TRUE)
  /\ UNCHANGED << handlerVars, logSequenceToken, lastWriter, logParams, readFrom >>

\* The retried PutLogEvents succeeded.
RetrySucceeded(c) ==
  /\ logPc[c] = "retry"
  /\ \E next \in SequenceTokens \cup { Undefined } : logSequenceToken' = next
  /\ lastWriter' = c
  /\ LoggerEnds(c, FALSE)
  /\ UNCHANGED << handlerVars, logParams, readFrom >>

\* The retried PutLogEvents threw: caught by the outer catch.
RetryFailed(c) ==
  /\ logPc[c] = "retry"
  /\ LoggerEnds(c, TRUE)
  /\ UNCHANGED << handlerVars, logSequenceToken, lastWriter, logParams, readFrom >>

\* Two POST requests with the API keys set, and the module loading.
LogSpecInit ==
  /\ Init
  /\ method = "POST"
  /\ runpodKey = TRUE
  /\ dailyKey = TRUE
  /\ tts = Undefined

LogNext ==
  \/ \E c \in Requests : SendToCloudWatch(c)
  \/ \E c \in Requests : PutSucceeded(c)
  \/ \E c \in Requests : PutNotFound(c)
  \/ \E c \in Requests : PutFailed(c)
  \/ \E c \in Callers : InitializeFoundStream(c)
  \/ \E c \in Callers : InitializeCreatedStream(c)
  \/ \E c \in Callers : InitializeFailed(c)
  \/ \E c \in Requests : RetrySucceeded(c)
  \/ \E c \in Requests : RetryFailed(c)

LogSpec == LogSpecInit /\ [][LogNext]_vars

\* ------------------------------------------- index.tsx: the Home page
\* What the steps of the Home page leave alone.
exceptHome == << connectVars, logVars, chat, help, monitor >>

\* No connect request is being served and no page has done anything yet.
PagesSpecInit ==
  /\ Init
  /\ method = "POST"
  /\ runpodKey = TRUE
  /\ dailyKey = TRUE
  /\ tts = Undefined

\* setupEventHandlers(client): returns at once when the handlers are
\* marked attached, else marks them, attaches them to the client and
\* returns the cleanup.
SetupEventHandlers(h, c) ==
  IF h.eventHandlersAttached
    THEN h
    ELSE [h EXCEPT !.eventHandlersAttached = TRUE,
                   !.handlersOn = @ \cup { c },
                   !.cleanup = @ \cup { c }]

\* handleStartConnection, the onClick of the Start button (disabled while
\* isConnected or isConnecting): createClient returns null, or a new client
\* on which the handlers are set up and connect() is called.
HandleStartConnection ==
  /\ ~home.isConnected
  /\ ~home.isConnecting
  /\ home.created < MaxStarts
  /\ LET c == home.created + 1 IN
       \/ home' = [home EXCEPT !.created = c,
                               !.clientInstance = NoClient,
                               !.isConnecting = FALSE]
       \/ LET set == SetupEventHandlers([home EXCEPT !.created = c,
                                                     !.clientInstance = c], c)
          IN  home' = [set EXCEPT
                         !.connection[c] = "connecting",
                         !.connectCalls = Append(@, [client |-> c,
                                                     handlers |-> c \in set.handlersOn]),
                         !.isConnecting = TRUE]
  /\ UNCHANGED exceptHome

\* connect() of client c rejects: the catch runs the cleanup, if
\* setupEventHandlers returned one, and sets clientInstance to null.
ConnectRejected(c) ==
  /\ home.connection[c] = "connecting"
  /\ home' = [home EXCEPT
                !.connection[c] = "failed",
                !.isConnecting = FALSE,
                !.handlersOn = IF c \in home.cleanup THEN @ \ { c } ELSE @,
                !.eventHandlersAttached = IF c \in home.cleanup THEN FALSE ELSE @,
                !.clientInstance = NoClient]
  /\ UNCHANGED exceptHome

\* Client c connects and emits 'connected'; handleConnected runs if it is
\* attached to c.
Connected(c) ==
  /\ home.connection[c] = "connecting"
  /\ home' = IF c \in home.handlersOn
               THEN [home EXCEPT !.connection[c] = "connected",
                                 !.isConnected = TRUE,
                                 !.isConnecting = FALSE]
               ELSE [home EXCEPT !.connection[c] = "connected"]
  /\ UNCHANGED exceptHome

\* Client c emits 'error': handleError.
HandleError(c) ==
  /\ home.connection[c] \in { "connecting", "connected" }
  /\ c \in home.handlersOn
  /\ home' = [home EXCEPT !.isConnecting = FALSE]
  /\ UNCHANGED exceptHome

\* handleStopConnection, the onClick of the Stop button (disabled unless
\* isConnected): clientInstance.disconnect().
HandleStopConnection ==
  /\ home.isConnected
  /\ home.clientInstance # NoClient
  /\ home.connection[home.clientInstance] \in { "connecting", "connected" }
  /\ home' = [home EXCEPT !.connection[home.clientInstance] = "disconnecting"]
  /\ UNCHANGED exceptHome

\* Client c is disconnected, by disconnect() or by the server, and emits
\* 'disconnected'; handleDisconnected runs if it is attached to c.
HandleDisconnected(c) ==
  /\ home.connection[c] \in { "connected", "disconnecting" }
  /\ home' = IF c \in home.handlersOn
               THEN [home EXCEPT !.connection[c] = "disconnected",
                                 !.uiOverride = NoOverride,
                                 !.isConnected = FALSE,
                                 !.isConnecting = FALSE,
                                 !.isWaitingForUser = FALSE]
               ELSE [home EXCEPT !.connection[c] = "disconnected"]
  /\ UNCHANGED exceptHome

\* logSetPendingUIOverride(newValue): setPendingUIOverride is given an
\* updater function, which assigns the ref when React runs it: at once
\* when nothing is queued, or else with the queue at the next render.
\* The set of the states the call can leave h in.
LogSetPendingUIOverride(h, newValue) ==
  { [h EXCEPT !.updaters = Append(@, newValue)] }
  \cup IF h.updaters = << >>
         THEN { [h EXCEPT !.pendingUIOverride = newValue,
                          !.pendingUIOverrideRef = newValue] }
         ELSE { }

\* React renders Home: the queued updaters run in order.
Render ==
  /\ home.updaters # << >>
  /\ home' = [home EXCEPT !.pendingUIOverride = home.updaters[Len(home.updaters)],
                          !.pendingUIOverrideRef = home.updaters[Len(home.updaters)],
                          !.updaters = << >>]
  /\ UNCHANGED exceptHome

\* A server message reaches the handlers attached to a connected client.
Delivers(c) == home.connection[c] = "connected" /\ c \in home.handlersOn

\* if (pendingUIOverrideRef.current) { setUIOverride(..);
\* logSetPendingUIOverride(null) }, in handleServerMessage and in
\* handleBotStoppedSpeaking: the states it can leave h in, none when
\* nothing is pending.
Promote(h) ==
  IF h.pendingUIOverrideRef # NoOverride /\ Len(h.promotions) < MaxPromotions
    THEN LogSetPendingUIOverride(
           [h EXCEPT !.uiOverride = h.pendingUIOverrideRef,
                     !.promotions = Append(@, h.pendingUIOverrideRef)],
           NoOverride)
    ELSE { }

\* handleServerMessage, event.status with event.ui_override.
StatusWithOverride(c) ==
  /\ Delivers(c)
  /\ home.received < MaxOverrides
  /\ home' \in LogSetPendingUIOverride([home EXCEPT !.received = @ + 1],
                                       home.received + 1)
  /\ UNCHANGED exceptHome

\* handleServerMessage, event.trigger === "UIOverride": a pending override
\* is promoted and the page waits for the user.
UIOverrideTrigger(c) ==
  /\ Delivers(c)
  /\ home' \in { [h EXCEPT !.isWaitingForUser = TRUE] : h \in Promote(home) }
  /\ UNCHANGED exceptHome

\* handleBotStoppedSpeaking: a pending override is promoted; the page
\* waits for the user in either case.
HandleBotStoppedSpeaking(c) ==
  /\ Delivers(c)
  /\ home' \in { [h EXCEPT !.isWaitingForUser = TRUE] :
                  h \in IF home.pendingUIOverrideRef # NoOverride
                          THEN Promote(home)
                          ELSE { home } }
  /\ UNCHANGED exceptHome

HomeNext ==
  \/ HandleStartConnection
  \/ \E c \in Clients : ConnectRejected(c)
  \/ \E c \in Clients : Connected(c)
  \/ \E c \in Clients : HandleError(c)
  \/ HandleStopConnection
  \/ \E c \in Clients : HandleDisconnected(c)
  \/ \E c \in Clients : StatusWithOverride(c)
  \/ \E c \in Clients : UIOverrideTrigger(c)
  \/ \E c \in Clients : HandleBotStoppedSpeaking(c)
  \/ Render

HomeSpec == PagesSpecInit /\ [][HomeNext]_vars

\* --------------------------------------- index.tsx: addChatMessage
exceptChat == << connectVars, logVars, home, help, monitor >>

\* The texts and types addChatMessage is called with; "" is the empty
\* (falsy) text.
Texts == { "", "Connected to the Turning Point Voice Bot server", "hello" }
MessageTypes == { "system", "user" }

\* Math.random().toString(36).substring(2, 15)
RandomSuffixes == { "k3f9" }

\* The time that passes between two calls, in ms.
Ticks == { 999, 1000, 1001 }

\* generateUniqueId()
GenerateUniqueId(t, r) == << t, r >>

\* Mutant of IsDuplicate: the window is one second.
IsDuplicateWithinOneSecond(prevMessages, text, type, t) ==
  \E k \in 1 .. Len(prevMessages) :
     /\ prevMessages[k].text = text
     /\ prevMessages[k].type = type
     /\ t - prevMessages[k].timestamp < 1000

\* prevMessages.some(msg => msg.text === text && msg.type === type &&
\* new Date().getTime() - msg.timestamp.getTime() < 2000)
IsDuplicate(prevMessages, text, type, t) ==
  \E k \in 1 .. Len(prevMessages) :
     /\ prevMessages[k].text = text
     /\ prevMessages[k].type = type
     /\ t - prevMessages[k].timestamp < 2000

\* addChatMessage(text, type), with the updater it passes to
\* setChatMessages.
AddChatMessage(text, type) ==
  /\ Len(chat.chatMessages) < MaxMessages
  /\ IF text = "" \/ IsDuplicate(chat.chatMessages, text, type, chat.now)
       THEN chat' = chat
       ELSE \E r \in RandomSuffixes :
              chat' = [chat EXCEPT !.chatMessages =
                         Append(@, [id |-> GenerateUniqueId(chat.now, r),
                                    text |-> text,
                                    type |-> type,
                                    timestamp |-> chat.now])]
  /\ UNCHANGED exceptChat

\* Time passes.
Tick(d) ==
  /\ chat.now + d <= MaxClock
  /\ chat' = [chat EXCEPT !.now = @ + d]
  /\ UNCHANGED exceptChat

ChatNext ==
  \/ \E text \in Texts, type \in MessageTypes : AddChatMessage(text, type)
  \/ \E d \in Ticks : Tick(d)

ChatSpec == PagesSpecInit /\ [][ChatNext]_vars

\* ------------------------------------ needs_help.ts: the relay route
exceptHelp == << connectVars, logVars, home, chat, monitor >>

\* What the control server answers, and how axios.post can fail:
\* error.response?.data?.detail and error.message ("" for none).
RelayData == { "help recorded", "help cleared", "unknown station" }
RelayErrors ==
  { [detail |-> "User not found", message |-> "Request failed with status code 404"],
    [detail |-> "", message |-> "Request failed with status code 500"],
    [detail |-> "", message |-> "connect ECONNREFUSED 127.0.0.1:8000"],
    [detail |-> "", message |-> ""] }

\* The message of the TypeError thrown by `const { help_data } = req.body`
\* when req.body is null.
DestructureError == "Cannot destructure property 'help_data' of 'req.body' as it is null."

\* !help_data || typeof help_data.user !== 'string' ||
\* typeof help_data.needs_help !== 'boolean'
InvalidHelpData(body) ==
  \/ ~body.hasHelpData
  \/ body.user.type # "string"
  \/ body.needs_help.type # "boolean"

\* error.response?.data?.detail || error.message || 'Unknown error'
ErrorText(err) ==
  IF err.detail # "" THEN err.detail
  ELSE IF err.message # "" THEN err.message
  ELSE "Unknown error"

\* handler of needs_help.ts, from the arrival of a request to its first
\* await or to its response.
NeedsHelpHandler(m, body) ==
  /\ help.pc = "idle"
  /\ help' =
       IF m # "POST"
         THEN [help EXCEPT !.method = m, !.body = body, !.pc = "done",
                 !.sent = [status |-> 405, body |-> HelpError("Method not allowed")]]
       ELSE IF body.isNull
         THEN [help EXCEPT !.method = m, !.body = body, !.pc = "done",
                 !.sent = [status |-> 500,
                           body |-> HelpError(ErrorText([detail |-> "",
                                                        message |-> DestructureError]))]]
       ELSE IF InvalidHelpData(body)
         THEN [help EXCEPT !.method = m, !.body = body, !.pc = "done",
                 !.sent = [status |-> 400,
                           body |-> HelpError("Invalid request body. Missing or invalid help_data.")]]
       ELSE [help EXCEPT !.method = m, !.body = body, !.pc = "relayWait",
               !.calls = Append(@, [user |-> body.user, needs_help |-> body.needs_help])]
  /\ UNCHANGED exceptHelp

\* The control server answered 2xx: 200 with its data.
RelayAnswered(d) ==
  /\ help.pc = "relayWait"
  /\ help' = [help EXCEPT !.pc = "done",
                          !.sent = [status |-> 200, body |-> HelpData(d)]]
  /\ UNCHANGED exceptHelp

\* axios.post rejected: the catch answers 500.
RelayFailed(err) ==
  /\ help.pc = "relayWait"
  /\ help' = [help EXCEPT !.pc = "done",
                          !.sent = [status |-> 500, body |-> HelpError(ErrorText(err))]]
  /\ UNCHANGED exceptHelp

HelpNext ==
  \/ \E m \in HelpMethods, body \in HelpBodies : NeedsHelpHandler(m, body)
  \/ \E d \in RelayData : RelayAnswered(d)
  \/ \E err \in RelayErrors : RelayFailed(err)

HelpSpec == PagesSpecInit /\ [][HelpNext]_vars

\* ------------------------------ StatusMonitor.tsx: the polling effect
exceptMonitor == << connectVars, logVars, home, chat, help >>

MaxEffects == 2
MaxPolls == 2

\* What the status API can return as ConversationStatus.status.
StatusValues == { "listening", "speaking" }
\* The messages of the errors pollStatus can catch.
NotOkError == "Failed to get status: Status API returned 500"
FetchError == "Failed to get status: Failed to fetch"
JsonError == "Failed to get status: Unexpected end of JSON input"
CallbackError == "Failed to get status: onStatusChange failed"

\* The cleanup function returned by the effect run e.
CleanupFlagOnly(effs, e) ==
  [effs EXCEPT ![e].isActive = FALSE]

Cleanup(effs, e) ==
  [effs EXCEPT ![e].isActive = FALSE, ![e].interval = "cleared"]

\* React runs the cleanup of the last effect run, if it returned one.
CleanupLast(effs) ==
  IF effs # << >> /\ effs[Len(effs)].hasCleanup
    THEN Cleanup(effs, Len(effs))
    ELSE effs

\* The effect body with props: without an identifier it sets the status
\* and returns no cleanup; otherwise it calls pollStatus once, starts the
\* interval and returns the cleanup.
RunEffect(mon, props) ==
  IF props.identifier = Undefined
    THEN [mon EXCEPT
            !.props = props,
            !.effects = Append(CleanupLast(@),
                               [isActive |-> FALSE, interval |-> "none", hasCleanup |-> FALSE,
                                onStatusChange |-> props.onStatusChange]),
            !.status = "waiting for participant"]
    ELSE [mon EXCEPT
            !.props = props,
            !.effects = Append(CleanupLast(@),
                               [isActive |-> TRUE, interval |-> "set", hasCleanup |-> TRUE,
                                onStatusChange |-> props.onStatusChange]),
            !.polls = Append(@, [effect |-> Len(mon.effects) + 1, stage |-> "fetch"])]

\* The component is mounted: the effect runs for the first time.
Mount(props) ==
  /\ monitor.mounted = "no"
  /\ monitor' = RunEffect([monitor EXCEPT !.mounted = "yes"], props)
  /\ UNCHANGED exceptMonitor

\* A render with a changed dependency: cleanup of the last run, new run.
PropsChange(props) ==
  /\ monitor.mounted = "yes"
  /\ props # monitor.props
  /\ Len(monitor.effects) < MaxEffects
  /\ monitor' = RunEffect(monitor, props)
  /\ UNCHANGED exceptMonitor

\* The component is unmounted: cleanup of the last run.
Unmount ==
  /\ monitor.mounted = "yes"
  /\ monitor' = [monitor EXCEPT !.mounted = "gone", !.effects = CleanupLast(@)]
  /\ UNCHANGED exceptMonitor

\* The interval of run e calls pollStatus.
IntervalFires(e) ==
  /\ monitor.effects[e].interval = "set"
  /\ Len(monitor.polls) < MaxPolls
  /\ monitor' = [monitor EXCEPT !.polls = Append(@, [effect |-> e, stage |-> "fetch"])]
  /\ UNCHANGED exceptMonitor

\* catch (err) of pollStatus call p.
PollCatch(mon, p, message) ==
  IF mon.effects[mon.polls[p].effect].isActive
    THEN [mon EXCEPT !.error = message, !.polls[p].stage = "failed"]
    ELSE [mon EXCEPT !.polls[p].stage = "dropped"]

\* fetch of call p resolved, ok or not.
FetchResolved(p, ok) ==
  /\ monitor.polls[p].stage = "fetch"
  /\ monitor' = IF ok
                  THEN [monitor EXCEPT !.polls[p].stage = "json"]
                  ELSE PollCatch(monitor, p, NotOkError)
  /\ UNCHANGED exceptMonitor

\* fetch of call p rejected.
FetchRejected(p) ==
  /\ monitor.polls[p].stage = "fetch"
  /\ monitor' = PollCatch(monitor, p, FetchError)
  /\ UNCHANGED exceptMonitor

\* response.json() of call p resolved with data; onStatusChange, when
\* given and called, returns or throws.
JsonParsed(p, data, throws) ==
  /\ monitor.polls[p].stage = "json"
  /\ LET e == monitor.polls[p].effect
         run == monitor.effects[e]
     IN  /\ throws => (run.isActive /\ run.onStatusChange)
         /\ monitor' =
              IF ~run.isActive
                THEN [monitor EXCEPT !.polls[p].stage = "dropped"]
              ELSE IF ~run.onStatusChange
                THEN [monitor EXCEPT !.status = data,
                                     !.error = NoErrorState,
                                     !.polls[p].stage = "applied"]
              ELSE [monitor EXCEPT
                      !.status = data,
                      !.statusChanges = Append(@, [effect |-> e, status |-> data]),
                      !.error = IF throws THEN CallbackError ELSE NoErrorState,
                      !.polls[p].stage = IF throws THEN "failed" ELSE "applied"]
  /\ UNCHANGED exceptMonitor

\* response.json() of call p rejected.
JsonRejected(p) ==
  /\ monitor.polls[p].stage = "json"
  /\ monitor' = PollCatch(monitor, p, JsonError)
  /\ UNCHANGED exceptMonitor

MonitorNext ==
  \/ \E props \in MonitorProps : Mount(props)
  \/ \E props \in MonitorProps : PropsChange(props)
  \/ Unmount
  \/ \E e \in 1 .. Len(monitor.effects) : IntervalFires(e)
  \/ \E p \in 1 .. Len(monitor.polls), ok \in BOOLEAN : FetchResolved(p, ok)
  \/ \E p \in 1 .. Len(monitor.polls) : FetchRejected(p)
  \/ \E p \in 1 .. Len(monitor.polls), data \in StatusValues, throws \in BOOLEAN :
        JsonParsed(p, data, throws)
  \/ \E p \in 1 .. Len(monitor.polls) : JsonRejected(p)

StatusSpec == PagesSpecInit /\ [][MonitorNext]_vars

\* ======================================================== properties
\* The candidates in the order the configuration fixes: every datacenter
\* for configuration 1, then every datacenter for configuration 2, ...
NumCandidates == Len(podConfigs) * Len(datacenterConfigs)

Candidate(k) ==
  << ((k - 1) \div Len(datacenterConfigs)) + 1,
     ((k - 1) % Len(datacenterConfigs)) + 1 >>

CandidateOf(call) == << call.config, call.datacenter >>

\* The "no instances" entry the attempt log holds for candidate k.
CapacityEntry(k) ==
  [text |-> "No instances available in datacenter",
   datacenter |-> ConfiguredDatacenterConfigs[Candidate(k)[2]].id,
   config |-> -1,
   gpu |-> ConfiguredPodConfigs[Candidate(k)[1]].gpuTypeId,
   detail |-> ""]

ExhaustedHead ==
  "No instances available for any configured options. Errors encountered: "

\* The answers so far: capacity-exhausted to all but the last, which deployed.
CapacityThenSuccess ==
  /\ Len(outcomes) >= 1
  /\ outcomes[Len(outcomes)] = "success"
  /\ \A k \in 1 .. Len(outcomes) - 1 : outcomes[k] = "capacity"

\* C1: once the answer for candidate k is a success carrying a pod id,
\* attemptRunPodLaunch returns that id at once, and from then on no further
\* allocator call is issued and the returned id does not change.
C1_ShortCircuit ==
  [][ /\ (pc = "classify" /\ outcomes[Len(outcomes)] = "success" /\ pc' # pc)
         => (pc' = "launched" /\ podId' = response.podId /\ calls' = calls)
      /\ (podId # NoId)
         => (calls' = calls /\ podId' = podId /\ pc' \in { "launched", "done" })
    ]_vars

\* C1 witness: the handler finished with a pod deployed by a candidate that
\* is not the last one, the later candidates never called.
C1_Witness ==
  /\ pc = "done"
  /\ podId # NoId
  /\ Len(calls) >= 1
  /\ Len(calls) < NumCandidates

\* C2: when attempts 1..N-1 were answered capacity-exhausted and attempt N
\* deployed, exactly N calls were issued, for the first N candidates, the
\* returned id is the one of answer N, and the attempt log holds the N-1
\* failures in the order tried.
C2_FallbackToNth ==
  (CapacityThenSuccess /\ pc # "classify") =>
     /\ Len(calls) = Len(outcomes)
     /\ \A k \in 1 .. Len(calls) : CandidateOf(calls[k]) = Candidate(k)
     /\ podId = response.podId
     /\ podId # NoId
     /\ Len(errors) = Len(outcomes) - 1
     /\ \A k \in 1 .. Len(errors) : errors[k] = CapacityEntry(k)

\* C2 witness: the last candidate deployed after all the others were
\* answered capacity-exhausted.
C2_Witness ==
  /\ CapacityThenSuccess
  /\ pc = "launched"
  /\ NumCandidates >= 3
  /\ Len(outcomes) = NumCandidates

\* Every candidate was answered capacity-exhausted.
AllCapacityExhausted ==
  /\ NumCandidates >= 1
  /\ Len(outcomes) = NumCandidates
  /\ \A k \in 1 .. Len(outcomes) : outcomes[k] = "capacity"

\* C3: when all N attempts were answered capacity-exhausted, the loop
\* fails with the exhaustion error, which carries an attempt log of N
\* entries, one per candidate in the order tried.
C3_AllExhausted ==
  (AllCapacityExhausted /\ pc # "classify") =>
     /\ pc \in { "launchFailed", "done" }
     /\ podId = NoId
     /\ thrown.head = ExhaustedHead
     /\ Len(thrown.joined) = NumCandidates
     /\ \A k \in 1 .. NumCandidates : thrown.joined[k] = CapacityEntry(k)
     /\ \A k \in 1 .. NumCandidates : CandidateOf(calls[k]) = Candidate(k)

\* C3 witness: the handler caught the exhaustion error after every
\* candidate was answered capacity-exhausted.
C3_Witness ==
  /\ AllCapacityExhausted
  /\ pc = "launchFailed"
  /\ NumCandidates >= 2

\* C4: once room creation has failed (the room request or the token
\* request), attemptRunPodLaunch is never entered and no allocator call is
\* issued for the request.
C4_NoProvisionAfterRoomFailure ==
  (thrown = DailyRoomError) =>
     /\ Len(calls) = 0
     /\ outstanding = 0
     /\ podConfigs = << >>
     /\ pc \in { "roomFailed", "done" }

\* C4 witness: the request ended after the token request failed.
C4_Witness ==
  /\ thrown = DailyRoomError
  /\ pc = "done"
  /\ tokenCalls = 1
  /\ writableEnded

\* C5: a 200 is sent only when room creation succeeded and the fallback
\* loop then returned a pod id, and its body carries the room URL and the
\* token the Daily API answered in this request.
C5_OkOnlyAfterBothSteps ==
  (sent.status = 200) =>
     /\ roomCalls = 1
     /\ tokenCalls = 1
     /\ roomResponse \in RoomAnswers
     /\ tokenResponse \in TokenAnswers
     /\ Len(outcomes) >= 1
     /\ outcomes[Len(outcomes)] = "success"
     /\ podId = response.podId
     /\ podId # NoId
     /\ thrown = NoError
     /\ sent.body = OkBody(roomResponse.url, tokenResponse)

\* C5 witness: a 200 was sent after an earlier candidate had failed.
C5_Witness ==
  /\ sent.status = 200
  /\ Len(errors) >= 1

\* C6: when provisioning failed because every candidate was tried without
\* success, the handler answers 503.
C6_ExhaustionAnswers503 ==
  (pc = "done" /\ thrown.head = ExhaustedHead) =>
     \A k \in 1 .. Len(writes) :
        writes[k].by = "handler" => writes[k].status = 503

\* C7: if the response has not been written when the timeout fires, the
\* caller receives 504.
C7_TimeoutAnswers504 ==
  (timer = "finished" /\ \E k \in 1 .. Len(writes) : writes[k].by = "timer")
     => sent.status = 504

\* C8: a failed attempt of any class appends exactly one entry to the
\* attempt log and does not end the loop: the next candidate is tried, and
\* an error is raised only after the last candidate.
C8_FailuresNeverAbort ==
  [][ (pc = "classify" /\ outcomes[Len(outcomes)] # "success" /\ pc' # pc) =>
        /\ Len(errors') = Len(errors) + 1
        /\ SubSeq(errors', 1, Len(errors)) = errors
        /\ podId' = NoId
        /\ IF Len(calls) < NumCandidates
             THEN /\ pc' = "tryAttempt"
                  /\ << index', dcIndex' >> = Candidate(Len(calls) + 1)
                  /\ thrown' = NoError
             ELSE /\ pc' = "launchFailed"
                  /\ thrown'.head = ExhaustedHead
                  /\ thrown'.joined = errors'
    ]_vars

\* C8 witness: four attempts failed, one of each class, and the loop
\* reached the end of the candidates.
C8_Witness ==
  /\ pc = "launchFailed"
  /\ Len(errors) = 4
  /\ { outcomes[k] : k \in 1 .. Len(outcomes) }
       = { "transport", "capacity", "other", "missing-id" }

\* C9: the allocator calls of a request are for the configured candidates
\* in the configured order, each at most once: call k is for candidate k.
C9_EachCandidateOnceInOrder ==
  /\ Len(calls) <= NumCandidates
  /\ \A k \in 1 .. Len(calls) :
       /\ CandidateOf(calls[k]) = Candidate(k)
       /\ calls[k].gpuTypeId = ConfiguredPodConfigs[Candidate(k)[1]].gpuTypeId
       /\ calls[k].minVcpuCount = ConfiguredPodConfigs[Candidate(k)[1]].minVcpuCount
       /\ calls[k].minMemoryInGb = ConfiguredPodConfigs[Candidate(k)[1]].minMemoryInGb
       /\ calls[k].dataCenterId = ConfiguredDatacenterConfigs[Candidate(k)[2]].id
       /\ calls[k].networkVolumeId
            = ConfiguredDatacenterConfigs[Candidate(k)[2]].networkVolumeId

\* C9 witness: every candidate has been called.
C9_Witness ==
  /\ NumCandidates >= 4
  /\ Len(calls) = NumCandidates

\* C10: at most one allocator call is outstanding, and every call but the
\* outstanding one has been answered.
C10_OneOutstandingCall ==
  /\ outstanding \in { 0, 1 }
  /\ Len(calls) = Len(outcomes) + outstanding

\* C10 witness: a second call is outstanding after the first was answered.
C10_Witness ==
  /\ outstanding = 1
  /\ Len(calls) >= 2


\* The candidate list attemptRunPodLaunch was given is empty.
NoCandidates == Len(podConfigs) = 0 \/ Len(datacenterConfigs) = 0

\* C11 as stated: with no candidate the loop fails at once with the
\* exhaustion error carrying an empty attempt log, and calls nothing.
C11_EmptyGivesExhaustedError ==
  (NoCandidates /\ pc # "attempt") =>
     /\ pc = "launchFailed"
     /\ thrown.head = ExhaustedHead
     /\ thrown.joined = << >>
     /\ Len(calls) = 0

\* C11 amended: with no candidate the loop fails at once without any
\* allocator call; with no pod configuration the error is 'No
\* configurations available to try', which carries no attempt log, and with
\* pod configurations but no datacenter it is the exhaustion error with an
\* empty attempt log.
C11_EmptyFailsWithoutCalls ==
  (NoCandidates /\ pc # "attempt") =>
     /\ pc = "launchFailed"
     /\ Len(calls) = 0
     /\ outstanding = 0
     /\ errors = << >>
     /\ podId = NoId
     /\ thrown.joined = << >>
     /\ thrown.head = IF Len(podConfigs) = 0
                        THEN "No configurations available to try"
                        ELSE ExhaustedHead

\* C11 witness: attemptRunPodLaunch has thrown for an empty podConfigs.
C11_Witness ==
  /\ Len(podConfigs) = 0
  /\ Len(datacenterConfigs) > 0
  /\ pc = "launchFailed"


\* attemptRunPodLaunch has returned or thrown.
AttemptEnded == pc \in { "launched", "launchFailed" }

\* It ended with one pod id and no error, or with no pod id and the error
\* that aggregates every attempt ('No configurations available to try'
\* when it was given no pod configuration).
OneOutcome ==
  \/ /\ pc = "launched"
     /\ podId \in PodIds
     /\ thrown = NoError
  \/ /\ pc = "launchFailed"
     /\ podId = NoId
     /\ IF Len(podConfigs) = 0
          THEN thrown = NoConfigurationsError
          ELSE /\ thrown.head = ExhaustedHead
               /\ thrown.joined = errors
               /\ Len(errors) = NumCandidates
               /\ Len(calls) = NumCandidates

C12_NoSharedMutableState ==
  \A c \in Requests :
     /\ readFrom[c] \in { ModuleLoad, c }
     /\ (logPc[c] \in { "put", "retry" }) => lastWriter \in { ModuleLoad, c }

ErrorTexts ==
  { "Method not allowed",
    "API keys not configured. Please set RUNPOD_API_KEY and DAILY_API_KEY environment variables.",
    "Failed to create Daily room. Please try again later.",
    "No GPU instances are currently available. Please try again later.",
    "Failed to launch instance. Please try again later.",
    "Request timed out",
    "An unexpected error occurred. Please try again later." }

C15_TimeoutDoesNotCancel ==
  (sent.status = 504) =>
     /\ (pc = "createRoom") => ENABLED CreateDailyRoom
     /\ (pc = "roomWait") => ENABLED RoomCreated
     /\ (pc = "tokenWait") => ENABLED TokenCreated
     /\ (pc = "launch") => ENABLED LaunchRunPodInstance
     /\ (pc = "tryAttempt") => ENABLED AttemptIssue
     /\ (pc = "allocWait") => ENABLED AttemptAnswered
     /\ (pc = "classify") => ENABLED Classify
     /\ (pc = "launched") => ENABLED RespondOk

\* C15 witness: a pod has been deployed, after an earlier candidate failed,
\* for a caller that was answered 504.
C15_Witness ==
  /\ sent.status = 504
  /\ pc = "launched"
  /\ podId \in PodIds
  /\ Len(calls) >= 2

\* C16 as stated: a request that is not a POST is answered 400.
C16_NonPostAnswers400 ==
  (method # "POST" /\ pc = "done") => sent.status = 400

\* C16 amended: a request that is not a POST is answered 405 with a JSON
\* error and causes no Room Broker or allocator call.
C16_NonPostAnswers405 ==
  (method # "POST") =>
     /\ roomCalls = 0
     /\ tokenCalls = 0
     /\ Len(calls) = 0
     /\ pc \in { "entry", "done" }
     /\ (pc = "done") =>
          sent = [status |-> 405, body |-> ErrorBody("Method not allowed")]

\* C16 witness: a GET request has been answered.
C16_Witness ==
  /\ method = "GET"
  /\ pc = "done"
  /\ writableEnded

MissingCredential == ~runpodKey \/ ~dailyKey

\* C17 as stated: with a credential missing the handler answers 500, and
\* makes no Room Broker or allocator call.
C17_MissingKeyAnswers500 ==
  (MissingCredential /\ pc = "done") =>
     /\ sent.status = 500
     /\ roomCalls = 0
     /\ tokenCalls = 0
     /\ Len(calls) = 0

\* C17 amended: with a credential missing no Room Broker or allocator call
\* is made, and a POST request is answered 500 (a request that is not a
\* POST is answered 405 first).
C17_MissingKeyPostAnswers500 ==
  MissingCredential =>
     /\ roomCalls = 0
     /\ tokenCalls = 0
     /\ Len(calls) = 0
     /\ pc \in { "entry", "done" }
     /\ (pc = "done" /\ method = "POST") =>
          sent = [status |-> 500,
                  body |-> ErrorBody("API keys not configured. Please set RUNPOD_API_KEY and DAILY_API_KEY environment variables.")]
     /\ (pc = "done" /\ method # "POST") => sent.status = 405

\* C17 witness: a POST request without the Daily key has been answered.
C17_Witness ==
  /\ method = "POST"
  /\ runpodKey
  /\ ~dailyKey
  /\ pc = "done"

\* The room request, or the token request, was answered with a failure.
RoomRequestFailed ==
  roomCalls = 1 /\ pc # "roomWait" /\ roomResponse.url = Undefined

TokenRequestFailed ==
  tokenCalls = 1 /\ pc # "tokenWait" /\ tokenResponse = Undefined

\* C18: createDailyRoom sends at most one room request and at most one
\* token request, the token request only after the room request succeeded;
\* a failure of either makes it throw without returning a room, and nothing
\* is sent again.
C18_SingleRoomAttempt ==
  /\ roomCalls \in { 0, 1 }
  /\ tokenCalls \in { 0, 1 }
  /\ (tokenCalls = 1) => (roomCalls = 1 /\ roomResponse \in RoomAnswers)
  /\ (RoomRequestFailed \/ TokenRequestFailed) =>
        /\ thrown = DailyRoomError
        /\ pc \in { "roomFailed", "done" }
        /\ roomUrl = Undefined
        /\ token = Undefined
  /\ RoomRequestFailed => tokenCalls = 0

\* C18 witness: the token request failed after the room was created.
C18_Witness ==
  /\ TokenRequestFailed
  /\ pc = "roomFailed"
  /\ roomResponse \in RoomAnswers

\* attemptRunPodLaunch threw after the room was created.
ProvisioningFailed ==
  pc \in { "launchFailed", "done" } /\ thrown # NoError /\ thrown # DailyRoomError

\* C19: when provisioning fails after the room was created, the Room
\* Broker has received the room request and the token request of the
\* creation and nothing else: the room is not rolled back.
C19_RoomLeftLive ==
  ProvisioningFailed =>
     /\ roomCalls = 1
     /\ tokenCalls = 1
     /\ roomUrl = roomResponse.url
     /\ token = tokenResponse

\* C19 witness: the handler has answered after every candidate failed.
C19_Witness ==
  /\ ProvisioningFailed
  /\ pc = "done"
  /\ sent.status = 500
  /\ Len(writes) = 1


\* The place of a pod configuration in the order the README documents:
\* the three RTX 4000 Ada configurations, then the RTX 4090 ones, then the
\* other GPUs.
DocumentedRank(q) ==
  IF q.gpuTypeId = "NVIDIA RTX 4000 Ada Generation" /\ q.minVcpuCount = 8 /\ q.minMemoryInGb = 24
    THEN 1
  ELSE IF q.gpuTypeId = "NVIDIA RTX 4000 Ada Generation" /\ q.minVcpuCount = 4 /\ q.minMemoryInGb = 24
    THEN 2
  ELSE IF q.gpuTypeId = "NVIDIA RTX 4000 Ada Generation" /\ q.minVcpuCount = 4 /\ q.minMemoryInGb = 15
    THEN 3
  ELSE IF q.gpuTypeId = "NVIDIA GeForce RTX 4090"
    THEN 4
  ELSE 5

\* C21: the allocator is asked for the GPU configurations in the
\* documented priority order: no request for a configuration follows a
\* request for one that the documentation ranks after it.
C21_DocumentedPriorityOrder ==
  \A i, j \in 1 .. Len(calls) :
     (i < j) => DocumentedRank(calls[i]) <= DocumentedRank(calls[j])


\* C22: the calls walk the cross product podConfigs x datacenterConfigs
\* configuration-outer / datacenter-inner: the first call is for the first
\* configuration in the first datacenter, each later call is for the next
\* datacenter of the same configuration or, after the last datacenter, for
\* the first datacenter of the next configuration; when no attempt
\* succeeded, |podConfigs| * |datacenterConfigs| calls were made.
C22_ProfileOuterLocationInner ==
  /\ \A k \in 1 .. Len(calls) :
       /\ calls[k].config \in 1 .. Len(podConfigs)
       /\ calls[k].datacenter \in 1 .. Len(datacenterConfigs)
       /\ (k = 1) => CandidateOf(calls[k]) = << 1, 1 >>
       /\ (k > 1) =>
            \/ /\ calls[k].config = calls[k - 1].config
               /\ calls[k].datacenter = calls[k - 1].datacenter + 1
            \/ /\ calls[k].config = calls[k - 1].config + 1
               /\ calls[k].datacenter = 1
               /\ calls[k - 1].datacenter = Len(datacenterConfigs)
  /\ (pc = "launchFailed") =>
        /\ podConfigs = AllPodConfigs
        /\ datacenterConfigs = AllDatacenterConfigs
        /\ Len(calls) = Len(podConfigs) * Len(datacenterConfigs)

\* C22 witness: every configuration has been refused in every datacenter.
C22_Witness ==
  /\ pc = "launchFailed"
  /\ thrown.head = ExhaustedHead
  /\ Len(calls) = Len(AllPodConfigs) * Len(AllDatacenterConfigs)
  /\ CandidateOf(calls[Len(calls)]) = << Len(AllPodConfigs), Len(AllDatacenterConfigs) >>


SessionContext(q) ==
  [IDENTIFIER |-> q.IDENTIFIER,
   DAILY_ROOM_URL |-> q.DAILY_ROOM_URL,
   DAILY_TOKEN |-> q.DAILY_TOKEN,
   TTS_CONFIG |-> q.TTS_CONFIG]

C25_AtMostOneWrite ==
  Len(writes) <= 1


\* C26: every connect() is called on a client to which the event handlers
\* have been attached.
C26_HandlersBeforeConnect ==
  \A k \in 1 .. Len(home.connectCalls) : home.connectCalls[k].handlers

\* C27: each received ui_override is promoted at most once, and only
\* received overrides that were pending are ever displayed.
C27_PromotedAtMostOnce ==
  /\ \A i, j \in 1 .. Len(home.promotions) :
       (i # j) => home.promotions[i] # home.promotions[j]
  /\ \A k \in 1 .. Len(home.promotions) : home.promotions[k] \in 1 .. home.received
  /\ home.uiOverride \in
       { NoOverride } \cup { home.promotions[k] : k \in 1 .. Len(home.promotions) }


\* C28: a step that changes the chat log appends one message at its end
\* and leaves the earlier ones as they were; the appended message has a
\* non-empty text, and no message of the log with the same text and type
\* is less than 2000 ms old.
C28_NoEmptyNoRecentDuplicate ==
  [][ (chat'.chatMessages # chat.chatMessages) =>
        /\ Len(chat'.chatMessages) = Len(chat.chatMessages) + 1
        /\ SubSeq(chat'.chatMessages, 1, Len(chat.chatMessages)) = chat.chatMessages
        /\ chat'.chatMessages[Len(chat'.chatMessages)].text # ""
        /\ chat'.chatMessages[Len(chat'.chatMessages)].timestamp = chat.now
        /\ \A k \in 1 .. Len(chat.chatMessages) :
             ~ /\ chat.chatMessages[k].text = chat'.chatMessages[Len(chat'.chatMessages)].text
               /\ chat.chatMessages[k].type = chat'.chatMessages[Len(chat'.chatMessages)].type
               /\ chat.now - chat.chatMessages[k].timestamp < 2000
    ]_vars

\* C28 witness: the log holds the same text and type twice, the second
\* appended exactly 2000 ms after the first, with another message between.
C28_Witness ==
  /\ Len(chat.chatMessages) = 3
  /\ chat.chatMessages[1].text = chat.chatMessages[3].text
  /\ chat.chatMessages[1].type = chat.chatMessages[3].type
  /\ chat.chatMessages[3].timestamp - chat.chatMessages[1].timestamp = 2000
  /\ chat.chatMessages[2].timestamp - chat.chatMessages[1].timestamp = 1000


\* The request is one the route relays: a POST whose help_data.user is a
\* string and whose help_data.needs_help is a boolean.
Relayable ==
  /\ help.method = "POST"
  /\ ~help.body.isNull
  /\ help.body.hasHelpData
  /\ help.body.user.type = "string"
  /\ help.body.needs_help.type = "boolean"

\* C29: the route posts to the control server only for a relayable
\* request; any other request is answered 405 (wrong method) or 400
\* (invalid body) with no outbound call, and a failed relay is answered 500.
C29_RelaysOnlyValidPosts ==
  /\ (help.calls # << >>) => Relayable
  /\ (help.pc = "done" /\ ~Relayable) =>
        /\ help.calls = << >>
        /\ help.sent.status = IF help.method # "POST" THEN 405 ELSE 400
  /\ (help.pc = "done" /\ Relayable) =>
        /\ Len(help.calls) = 1
        /\ help.sent.status \in { 200, 500 }

\* The effect run e has been cleaned up: a later run exists, or the
\* component is unmounted.
CleanedUp(e) == e < Len(monitor.effects) \/ monitor.mounted = "gone"

PollsOf(ps, e) == { p \in 1 .. Len(ps) : ps[p].effect = e }

\* C30: once an effect run of StatusMonitor has been cleaned up, a step in
\* which one of its polls settles changes neither the status, nor the
\* error, nor the calls of onStatusChange, and no step adds a poll of it.
C30_NoUpdateAfterCleanup ==
  [][ \A e \in 1 .. Len(monitor.effects) :
        CleanedUp(e) =>
          /\ PollsOf(monitor'.polls, e) = PollsOf(monitor.polls, e)
          /\ (\E p \in PollsOf(monitor.polls, e) : monitor'.polls[p] # monitor.polls[p]) =>
                /\ monitor'.status = monitor.status
                /\ monitor'.error = monitor.error
                /\ monitor'.statusChanges = monitor.statusChanges ]_vars

\* A poll of a cleaned-up run was answered after the cleanup and dropped,
\* while a poll of the run that replaced it was applied.
C30_Witness ==
  /\ monitor.mounted = "yes"
  /\ \E p \in 1 .. Len(monitor.polls) :
       /\ CleanedUp(monitor.polls[p].effect)
       /\ monitor.polls[p].stage = "dropped"
  /\ \E q \in 1 .. Len(monitor.polls) :
       /\ monitor.polls[q].effect = Len(monitor.effects)
       /\ monitor.polls[q].stage = "applied"

====
